---- MODULE Spec2Model ----
(***************************************************************************)
(* Server handshake state machine of saltyrtc-client-rs                    *)
(* (src/protocol/mod.rs): Signaling, ServerContext, next_state and         *)
(* handle_message.  The message catalog, the envelope codec, the nonce     *)
(* types and the StateTransition conversions live in sibling modules of    *)
(* the crate; they are modelled from their documented contract.            *)
(***************************************************************************)
EXTENDS Integers, Sequences, FiniteSets, TLC

(* ------------------------------ bounds --------------------------------- *)

\* Number of distinct public keys (key ids 1..MaxKey stand for 32-byte keys).
MaxKey == 2

\* Number of handle_message calls followed per connection.
MaxCalls == 3

\* Number of connections a host serves at once (SpecIso).
MaxConn == 2

Keys == 1..MaxKey

Conn == 1..MaxConn

(* ------------------------------ options -------------------------------- *)

\* Option<T>: None is the empty sequence, Some(x) the one-element sequence.
None == << >>

Some(x) == << x >>

(* ------------------------------- nonce --------------------------------- *)

Sender_new(a) == [sender |-> a]

Receiver_new(a) == [receiver |-> a]

\* Receiver::server(): the reserved address of the server.
Receiver_server == Receiver_new(0)

Nonce_new(cookie, source, destination, overflow, sequence) ==
    [cookie |-> cookie, source |-> source, destination |-> destination,
     overflow |-> overflow, sequence |-> sequence]

\* The literal [0; 16] cookie used by next_state.
ZeroCookie == [i \in 1..16 |-> 0]

\* tests::create_test_nonce
create_test_nonce ==
    Nonce_new([i \in 1..16 |-> i], Sender_new(17), Receiver_new(18), 258, 50595078)

(* ------------------------------ messages ------------------------------- *)

Role == {"Initiator", "Responder"}

ServerHello(key) == [variant |-> "ServerHello", key |-> key]

ClientHello_new(key) == [variant |-> "ClientHello", key |-> key]

ClientAuth(your_cookie, subprotocols, ping_interval, your_key) ==
    [variant |-> "ClientAuth", your_cookie |-> your_cookie,
     subprotocols |-> subprotocols, ping_interval |-> ping_interval,
     your_key |-> your_key]

\* Message::get_type: the wire-type tag of a message.
get_type(message) ==
    CASE message.variant = "ServerHello" -> "server-hello"
      [] message.variant = "ClientHello" -> "client-hello"
      [] message.variant = "ClientAuth"  -> "client-auth"

\* Serialisation of a message: the type tag followed by the fields.
Message_to_payload(message) ==
    CASE message.variant = "ServerHello" -> << "server-hello", message.key >>
      [] message.variant = "ClientHello" -> << "client-hello", message.key >>
      [] message.variant = "ClientAuth"  ->
           << "client-auth", message.your_cookie, message.subprotocols,
              message.ping_interval, message.your_key >>

\* Parsing of a payload: Ok(message) or Err(error kind).
Message_from_payload(p) ==
    IF Len(p) = 0 THEN [ok |-> FALSE, err |-> "Empty"]
    ELSE IF p[1] = "server-hello" THEN
        IF Len(p) = 2 THEN [ok |-> TRUE, message |-> ServerHello(p[2])]
        ELSE [ok |-> FALSE, err |-> "Malformed"]
    ELSE IF p[1] = "client-hello" THEN
        IF Len(p) = 2 THEN [ok |-> TRUE, message |-> ClientHello_new(p[2])]
        ELSE [ok |-> FALSE, err |-> "Malformed"]
    ELSE IF p[1] = "client-auth" THEN
        IF Len(p) = 5 THEN [ok |-> TRUE, message |-> ClientAuth(p[2], p[3], p[4], p[5])]
        ELSE [ok |-> FALSE, err |-> "Malformed"]
    ELSE [ok |-> FALSE, err |-> "UnknownType"]

\* Display of a decode error (format!("{}", e)).
format_error(e) ==
    CASE e = "Empty"       -> "Decode error: empty payload"
      [] e = "Malformed"   -> "Decode error: malformed message"
      [] e = "UnknownType" -> "Decode error: unknown message type"

(* ------------------------------- boxes --------------------------------- *)

ByteBox_new(bytes, nonce) == [bytes |-> bytes, nonce |-> nonce]

OpenBox_new(message, nonce) == [message |-> message, nonce |-> nonce]

\* OpenBox::encode (unencrypted): serialise the message, keep the nonce.
encode(obox) == ByteBox_new(Message_to_payload(obox.message), obox.nonce)

\* ByteBox::decode (unencrypted): parse the bytes, keep the nonce.
decode(bbox) ==
    LET r == Message_from_payload(bbox.bytes) IN
    IF r.ok THEN [ok |-> TRUE, obox |-> OpenBox_new(r.message, bbox.nonce)]
    ELSE [ok |-> FALSE, err |-> r.err]

(* ------------------------- states and actions -------------------------- *)

New == [tag |-> "New"]

ClientInfoSent == [tag |-> "ClientInfoSent"]

Failure(msg) == [tag |-> "Failure", msg |-> msg]

\* derive(Debug) of ServerHandshakeState ({:?}).
Debug(s) ==
    CASE s.tag = "New" -> "New"
      [] s.tag = "ClientInfoSent" -> "ClientInfoSent"
      [] s.tag = "Failure" -> "Failure(\"" \o s.msg \o "\")"

SetServerKey(key) == [action |-> "SetServerKey", key |-> key]

Reply(bbox) == [action |-> "Reply", bbox |-> bbox]

StateTransition_new(state, actions) == [state |-> state, actions |-> actions]

\* From<ServerHandshakeState> for StateTransition: the state, no actions.
into(state) == StateTransition_new(state, << >>)

\* From<(ServerHandshakeState, HandleAction)>: the state and that one action.
into_state_action(state, action) == StateTransition_new(state, << action >>)

\* From<(ServerHandshakeState, Vec<HandleAction>)>: the state and the list.
into_state_actions(state, actions) == StateTransition_new(state, actions)

\* From<StateTransition> for StateTransition (the reflexive conversion).
into_transition(transition) == transition

\* tests::create_test_bbox
create_test_bbox == ByteBox_new(<< 1, 2, 3 >>, create_test_nonce)

(* ---------------------------- ServerContext ---------------------------- *)

\* Variant of ServerContext::new that starts with a session key set.
ServerContext_new_keyed ==
    [handshake_state |-> New, permanent_key |-> None, session_key |-> Some(1)]

ServerContext_new ==
    [handshake_state |-> New, permanent_key |-> None, session_key |-> None]

address(ctx) == Receiver_server

permanent_key(ctx) == ctx.permanent_key

session_key(ctx) == ctx.session_key

(* ------------------------------ Signaling ------------------------------ *)

\* Signaling::new; the KeyStore is represented by its public key.
Signaling_new(role, key) ==
    [role |-> role, server |-> ServerContext_new, permanent_key |-> key]

\* KeyStore::public_key
public_key(keystore) == keystore

\* Variant of the ServerHello arm that pushes the replies before the key.
on_server_hello_replies_first(self, msg) ==
    LET key == public_key(self.permanent_key)
        client_hello_nonce ==
            Nonce_new(ZeroCookie, Sender_new(0), Receiver_new(0), 0, 123)
        client_auth == ClientAuth(ZeroCookie, << "vX.saltyrtc.org" >>, 0, None)
        client_auth_nonce ==
            Nonce_new(ZeroCookie, Sender_new(0), Receiver_new(0), 0, 124)
    IN  StateTransition_new(ClientInfoSent,
            << Reply(encode(OpenBox_new(ClientHello_new(key), client_hello_nonce))),
               Reply(encode(OpenBox_new(client_auth, client_auth_nonce))),
               SetServerKey(msg.key) >>)

\* Variant of the ServerHello arm that sends the server's key back in the
\* ClientHello instead of the local public key.
on_server_hello_echo_key(self, msg) ==
    LET client_hello_nonce ==
            Nonce_new(ZeroCookie, Sender_new(0), Receiver_new(0), 0, 123)
        client_auth == ClientAuth(ZeroCookie, << "vX.saltyrtc.org" >>, 0, None)
        client_auth_nonce ==
            Nonce_new(ZeroCookie, Sender_new(0), Receiver_new(0), 0, 124)
    IN  StateTransition_new(ClientInfoSent,
            << SetServerKey(msg.key),
               Reply(encode(OpenBox_new(ClientHello_new(msg.key), client_hello_nonce))),
               Reply(encode(OpenBox_new(client_auth, client_auth_nonce))) >>)

\* Variant of the ServerHello arm that wraps both replies with the same
\* sequence number.
on_server_hello_same_sequence(self, msg) ==
    LET key == public_key(self.permanent_key)
        nonce == Nonce_new(ZeroCookie, Sender_new(0), Receiver_new(0), 0, 123)
        client_auth == ClientAuth(ZeroCookie, << "vX.saltyrtc.org" >>, 0, None)
    IN  StateTransition_new(ClientInfoSent,
            << SetServerKey(msg.key),
               Reply(encode(OpenBox_new(ClientHello_new(key), nonce))),
               Reply(encode(OpenBox_new(client_auth, nonce))) >>)

\* next_state, arm (New, ServerHello(msg)): the three happy-path actions.
on_server_hello(self, msg) ==
    LET key == public_key(self.permanent_key)
        client_hello == ClientHello_new(key)
        client_hello_nonce ==
            Nonce_new(ZeroCookie, Sender_new(0), Receiver_new(0), 0, 123)
        client_auth == ClientAuth(ZeroCookie, << "vX.saltyrtc.org" >>, 0, None)
        client_auth_nonce ==
            Nonce_new(ZeroCookie, Sender_new(0), Receiver_new(0), 0, 124)
        actions ==
            << SetServerKey(msg.key),
               Reply(encode(OpenBox_new(client_hello, client_hello_nonce))),
               Reply(encode(OpenBox_new(client_auth, client_auth_nonce))) >>
    IN  StateTransition_new(ClientInfoSent, actions)

\* Variant of the dispatch that names the message by its variant ({:?})
\* instead of its wire-type tag.
dispatch_debug_message(self, obox) ==
    LET s == self.server.handshake_state
        message == obox.message
    IN  IF s.tag = "New" /\ message.variant = "ServerHello"
        THEN on_server_hello(self, message)
        ELSE IF s.tag = "Failure"
        THEN into(Failure(s.msg))
        ELSE into(Failure("Invalid event transition: " \o Debug(s)
                          \o " <- " \o message.variant))

\* Variant of the dispatch whose default arm keeps the current state.
dispatch_keeps_state(self, obox) ==
    LET s == self.server.handshake_state
        message == obox.message
    IN  IF s.tag = "New" /\ message.variant = "ServerHello"
        THEN on_server_hello(self, message)
        ELSE IF s.tag = "Failure"
        THEN into(Failure(s.msg))
        ELSE into(s)

\* Variant of the dispatch whose default arm is built from (state, action)
\* and sends the offending envelope back.
dispatch_failure_with_action(self, obox) ==
    LET s == self.server.handshake_state
        message == obox.message
    IN  IF s.tag = "New" /\ message.variant = "ServerHello"
        THEN on_server_hello(self, message)
        ELSE IF s.tag = "Failure"
        THEN into(Failure(s.msg))
        ELSE into_state_action(
                 Failure("Invalid event transition: " \o Debug(s)
                         \o " <- " \o get_type(message)),
                 Reply(encode(obox)))

\* next_state, second match: dispatch on (handshake state, decoded message).
dispatch(self, obox) ==
    LET s == self.server.handshake_state
        message == obox.message
    IN  IF s.tag = "New" /\ message.variant = "ServerHello"
        THEN on_server_hello(self, message)
        ELSE IF s.tag = "Failure"
        THEN into(Failure(s.msg))
        ELSE into(Failure("Invalid event transition: " \o Debug(s)
                          \o " <- " \o get_type(message)))

\* Variant of next_state without the Failure short-circuit: Failure falls
\* into the "otherwise" arm.
next_state_no_short_circuit(self, bbox) ==
    LET s == self.server.handshake_state IN
    IF s.tag = "New"
    THEN LET r == decode(bbox) IN
         IF r.ok THEN dispatch(self, r.obox)
         ELSE into(Failure(format_error(r.err)))
    ELSE into(Failure("Not yet implemented"))

\* Variant of next_state that stores the error's kind ({:?}) instead of its
\* formatted text.
next_state_debug_error(self, bbox) ==
    LET s == self.server.handshake_state IN
    IF s.tag = "New"
    THEN LET r == decode(bbox) IN
         IF r.ok THEN dispatch(self, r.obox)
         ELSE into(Failure(r.err))
    ELSE IF s.tag = "Failure"
    THEN into(Failure(s.msg))
    ELSE into(Failure("Not yet implemented"))

\* Variant of next_state that decodes in every state but Failure.
next_state_decode_first(self, bbox) ==
    LET s == self.server.handshake_state IN
    IF s.tag = "Failure"
    THEN into(Failure(s.msg))
    ELSE LET r == decode(bbox) IN
         IF r.ok THEN dispatch(self, r.obox)
         ELSE into(Failure(format_error(r.err)))

\* Variant of next_state that answers a ServerHello in every state but
\* Failure.
next_state_rehello(self, bbox) ==
    LET s == self.server.handshake_state IN
    IF s.tag = "Failure"
    THEN into(Failure(s.msg))
    ELSE LET r == decode(bbox) IN
         IF ~r.ok THEN into(Failure(format_error(r.err)))
         ELSE IF r.obox.message.variant = "ServerHello"
         THEN on_server_hello(self, r.obox.message)
         ELSE dispatch(self, r.obox)

\* Variant of next_state whose "otherwise" arm keeps the current state.
next_state_stay_sent(self, bbox) ==
    LET s == self.server.handshake_state IN
    IF s.tag = "New"
    THEN LET r == decode(bbox) IN
         IF r.ok THEN dispatch(self, r.obox)
         ELSE into(Failure(format_error(r.err)))
    ELSE IF s.tag = "Failure"
    THEN into(Failure(s.msg))
    ELSE into(s)

\* Signaling::next_state: the transition for one inbound ByteBox.
next_state(self, bbox) ==
    LET s == self.server.handshake_state IN
    IF s.tag = "New"
    THEN LET r == decode(bbox) IN
         IF r.ok THEN dispatch(self, r.obox)
         ELSE into(Failure(format_error(r.err)))
    ELSE IF s.tag = "Failure"
    THEN into(Failure(s.msg))
    ELSE into(Failure("Not yet implemented"))

\* next_state, first match: TRUE when it yields an OpenBox, so that the
\* (state, message) dispatch is evaluated, FALSE when it returns early.
reaches_dispatch(self, bbox) ==
    self.server.handshake_state.tag = "New" /\ decode(bbox).ok

(* ------------------------------- inputs -------------------------------- *)

\* Messages a peer may send.
InMessages ==
    {ServerHello(k) : k \in Keys} \cup {ClientHello_new(k) : k \in Keys}
    \cup {ClientAuth(ZeroCookie, << "vX.saltyrtc.org" >>, 0, None)}

\* Their serialisations, every truncation of one, and an unknown type.
InPayloads ==
    UNION {{SubSeq(Message_to_payload(m), 1, n) : n \in 0..Len(Message_to_payload(m))}
           : m \in InMessages}
    \cup {<< "bogus", 1 >>}

InByteBoxes == {ByteBox_new(p, create_test_nonce) : p \in InPayloads}

(* ---------------------------- state machine ---------------------------- *)

VARIABLES
    sig,        \* connection -> its Signaling (domain: the connections created)
    returned,   \* connection -> the Vec<HandleAction> its last call returned
    inbound,    \* connection -> the ByteBoxes handled so far, in arrival order
    emitted     \* connection -> the action list each of its calls returned, in order

vars == << sig, returned, inbound, emitted >>

Init ==
    /\ sig = << >>
    /\ returned = << >>
    /\ inbound = << >>
    /\ emitted = << >>

\* A connection begins: Signaling::new(role, permanent_key).
Connect(c, role, key) ==
    /\ c \notin DOMAIN sig
    /\ sig' = sig @@ (c :> Signaling_new(role, key))
    /\ returned' = returned @@ (c :> << >>)
    /\ inbound' = inbound @@ (c :> << >>)
    /\ emitted' = emitted @@ (c :> << >>)

\* Variant of handle_message that returns the actions without storing the
\* transition's state.
handle_message_no_store(c, bbox) ==
    /\ c \in DOMAIN sig
    /\ Len(inbound[c]) < MaxCalls
    /\ LET transition == next_state(sig[c], bbox) IN
       /\ sig' = sig
       /\ returned' = [returned EXCEPT ![c] = transition.actions]
       /\ emitted' = [emitted EXCEPT ![c] = Append(@, transition.actions)]
    /\ inbound' = [inbound EXCEPT ![c] = Append(@, bbox)]

\* Variant of handle_message that also applies a returned SetServerKey to
\* the server context.
handle_message_applies_key(c, bbox) ==
    /\ c \in DOMAIN sig
    /\ Len(inbound[c]) < MaxCalls
    /\ LET transition == next_state(sig[c], bbox)
           keys == SelectSeq(transition.actions, LAMBDA a : a.action = "SetServerKey")
       IN
       /\ sig' = [sig EXCEPT ![c].server.handshake_state = transition.state,
                             ![c].server.permanent_key =
                                 IF keys = << >> THEN @ ELSE Some(keys[1].key)]
       /\ returned' = [returned EXCEPT ![c] = transition.actions]
       /\ emitted' = [emitted EXCEPT ![c] = Append(@, transition.actions)]
    /\ inbound' = [inbound EXCEPT ![c] = Append(@, bbox)]

\* Variant of handle_message in which the handshake state is shared by all
\* connections instead of being owned by one Signaling.
handle_message_shared_state(c, bbox) ==
    /\ c \in DOMAIN sig
    /\ Len(inbound[c]) < MaxCalls
    /\ LET transition == next_state(sig[c], bbox) IN
       /\ sig' = [d \in DOMAIN sig |->
                    [sig[d] EXCEPT !.server.handshake_state = transition.state]]
       /\ returned' = [returned EXCEPT ![c] = transition.actions]
       /\ emitted' = [emitted EXCEPT ![c] = Append(@, transition.actions)]
    /\ inbound' = [inbound EXCEPT ![c] = Append(@, bbox)]

\* Signaling::handle_message(bbox) on connection c.
handle_message(c, bbox) ==
    /\ c \in DOMAIN sig
    /\ Len(inbound[c]) < MaxCalls
    /\ LET transition == next_state(sig[c], bbox) IN
       /\ sig' = [sig EXCEPT ![c].server.handshake_state = transition.state]
       /\ returned' = [returned EXCEPT ![c] = transition.actions]
       /\ emitted' = [emitted EXCEPT ![c] = Append(@, transition.actions)]
    /\ inbound' = [inbound EXCEPT ![c] = Append(@, bbox)]

\* One connection (number 1) is created and fed inbound ByteBoxes.
Next ==
    \/ \E role \in Role, key \in Keys : Connect(1, role, key)
    \/ \E bbox \in InByteBoxes : handle_message(1, bbox)

Spec == Init /\ [][Next]_vars

\* ByteBoxes fed to the connections of a host serving several at once: a
\* ServerHello and a ClientHello.
IsoByteBoxes ==
    {encode(OpenBox_new(m, create_test_nonce)) : m \in {ServerHello(1), ClientHello_new(1)}}

\* Local keys of those connections: the first and the last key.
IsoKeys == {1, MaxKey}

\* Several connections, each with its own Signaling, whose handle_message
\* calls interleave in any order.
NextIso ==
    \/ \E c \in Conn, key \in IsoKeys : Connect(c, "Initiator", key)
    \/ \E c \in Conn, bbox \in IsoByteBoxes : handle_message(c, bbox)

SpecIso == Init /\ [][NextIso]_vars

(* ----------------------------- observations ---------------------------- *)

\* The stored handshake state of connection c.
HandshakeState(c) == sig[c].server.handshake_state

\* The ByteBox the latest handle_message call of connection c was given.
Arrived(c) == inbound[c][Len(inbound[c])]

\* This step is a handle_message call on connection c.
Called(c) ==
    /\ c \in DOMAIN sig
    /\ c \in DOMAIN sig'
    /\ Len(inbound'[c]) = Len(inbound[c]) + 1

\* The bytes decode to a ServerHello.
IsServerHello(bbox) ==
    decode(bbox).ok /\ decode(bbox).obox.message.variant = "ServerHello"

(* -------------------------------- claims ------------------------------- *)

\* C1 (absorption): a step taken while connection c is in Failure(r) leaves
\* it in Failure(r) with the same reason r, and a handle_message call made
\* in that state returns an empty action list, whatever the ByteBox holds.
C1_Absorption ==
    [][\A c \in DOMAIN sig :
          HandshakeState(c).tag = "Failure" =>
              /\ c \in DOMAIN sig'
              /\ HandshakeState(c)' = HandshakeState(c)
              /\ Called(c) => returned'[c] = << >>]_vars

\* A second message (a ServerHello) was handled after the first one had
\* produced an invalid-transition failure: the reason is still that of the
\* first message.
C1_Witness ==
    \E c \in DOMAIN sig :
        /\ Len(inbound[c]) >= 2
        /\ IsServerHello(Arrived(c))
        /\ HandshakeState(c) = Failure("Invalid event transition: New <- client-hello")

\* C2 (happy path): a call in state New whose ByteBox decodes to
\* ServerHello{key = K} stores ClientInfoSent and returns exactly three
\* actions, in the order SetServerKey(K), Reply(client-hello), Reply(client-auth).
C2_HappyPath ==
    [][\A c \in DOMAIN sig :
          (Called(c) /\ HandshakeState(c) = New /\ IsServerHello(Arrived(c)')) =>
              /\ HandshakeState(c)' = ClientInfoSent
              /\ Len(returned'[c]) = 3
              /\ returned'[c][1] = SetServerKey(decode(Arrived(c)').obox.message.key)
              /\ returned'[c][2].action = "Reply"
              /\ returned'[c][2].bbox.bytes[1] = "client-hello"
              /\ returned'[c][3].action = "Reply"
              /\ returned'[c][3].bbox.bytes[1] = "client-auth"]_vars

\* The first message of a connection was a ServerHello and three actions
\* came back.
C2_Witness ==
    \E c \in DOMAIN sig :
        /\ Len(inbound[c]) = 1
        /\ IsServerHello(Arrived(c))
        /\ HandshakeState(c) = ClientInfoSent
        /\ Len(returned[c]) = 3

\* C3: on the (New, ServerHello) transition the first Reply decodes to the
\* ClientHello carrying the local permanent public key of the connection's
\* KeyStore, and the second Reply decodes to the ClientAuth message.
C3_ReplyContents ==
    [][\A c \in DOMAIN sig :
          (Called(c) /\ HandshakeState(c) = New /\ IsServerHello(Arrived(c)')) =>
              /\ Len(returned'[c]) = 3
              /\ decode(returned'[c][2].bbox).ok
              /\ decode(returned'[c][2].bbox).obox.message
                     = ClientHello_new(public_key(sig[c].permanent_key))
              /\ decode(returned'[c][3].bbox).ok
              /\ decode(returned'[c][3].bbox).obox.message
                     = ClientAuth(ZeroCookie, << "vX.saltyrtc.org" >>, 0, None)]_vars

\* The server's key differs from the local key, and the ClientHello that was
\* returned carries the local one.
C3_Witness ==
    \E c \in DOMAIN sig :
        /\ Len(inbound[c]) = 1
        /\ IsServerHello(Arrived(c))
        /\ decode(Arrived(c)).obox.message.key # public_key(sig[c].permanent_key)
        /\ Len(returned[c]) = 3
        /\ decode(returned[c][2].bbox).obox.message.key = public_key(sig[c].permanent_key)

\* C4 (decode failure at New): a call in state New whose ByteBox fails to
\* decode with error E stores Failure(format(E)) and returns no actions.
C4_DecodeFailure ==
    [][\A c \in DOMAIN sig :
          (Called(c) /\ HandshakeState(c) = New /\ ~decode(Arrived(c)').ok) =>
              /\ HandshakeState(c)' = Failure(format_error(decode(Arrived(c)').err))
              /\ returned'[c] = << >>]_vars

\* The first message of a connection was a truncated server-hello and the
\* stored reason is the text of the malformed-message error.
C4_Witness ==
    \E c \in DOMAIN sig :
        /\ Len(inbound[c]) = 1
        /\ Arrived(c).bytes = << "server-hello" >>
        /\ HandshakeState(c) = Failure(format_error("Malformed"))

\* C5 (invalid transition naming): a call in state New whose ByteBox decodes
\* to a message other than ServerHello stores
\* Failure("Invalid event transition: New <- <wire-type tag>") and returns no
\* actions; for a ClientHello the reason is
\* "Invalid event transition: New <- client-hello".
C5_InvalidTransition ==
    [][\A c \in DOMAIN sig :
          (Called(c) /\ HandshakeState(c) = New /\ decode(Arrived(c)').ok
             /\ ~IsServerHello(Arrived(c)')) =>
              LET message == decode(Arrived(c)').obox.message IN
              /\ HandshakeState(c)' =
                     Failure("Invalid event transition: New <- " \o get_type(message))
              /\ message.variant = "ClientHello" =>
                     HandshakeState(c)'.msg = "Invalid event transition: New <- client-hello"
              /\ returned'[c] = << >>]_vars

\* The first message of a connection was a ClientHello.
C5_Witness ==
    \E c \in DOMAIN sig :
        /\ Len(inbound[c]) = 1
        /\ decode(Arrived(c)).ok
        /\ decode(Arrived(c)).obox.message.variant = "ClientHello"
        /\ HandshakeState(c).tag = "Failure"

\* C6 (protocol errors are never raised): handle_message can be called with
\* every ByteBox in every state, and a call never leaves the state at New:
\* it stores ClientInfoSent on the happy path and a Failure state, with no
\* actions, in every other case.
C6_NeverRaised ==
    /\ [](\A c \in DOMAIN sig : \A bbox \in InByteBoxes :
            Len(inbound[c]) < MaxCalls => ENABLED handle_message(c, bbox))
    /\ [][\A c \in DOMAIN sig :
            Called(c) =>
                /\ HandshakeState(c)'.tag \in {"ClientInfoSent", "Failure"}
                /\ ~(HandshakeState(c) = New /\ IsServerHello(Arrived(c)')) =>
                       /\ HandshakeState(c)'.tag = "Failure"
                       /\ returned'[c] = << >>]_vars

\* Three calls have completed on a connection whose first message was an
\* unexpected ClientAuth and whose last one did not decode.
C6_Witness ==
    \E c \in DOMAIN sig :
        /\ Len(inbound[c]) = 3
        /\ decode(inbound[c][1]).ok
        /\ decode(inbound[c][1]).obox.message.variant = "ClientAuth"
        /\ ~decode(Arrived(c)).ok
        /\ HandshakeState(c).tag = "Failure"

\* C8: a freshly created server context reports the reserved address 0 and
\* has neither a permanent key nor a session key.
C8_FreshServerContext ==
    \A c \in DOMAIN sig :
        inbound[c] = << >> =>
            /\ address(sig[c].server) = Receiver_new(0)
            /\ permanent_key(sig[c].server) = None
            /\ session_key(sig[c].server) = None
            /\ HandshakeState(c) = New

\* A connection exists that has handled no message yet.
C8_Witness == \E c \in DOMAIN sig : inbound[c] = << >>

\* C9 (unimplemented states): a call in state ClientInfoSent stores
\* Failure("Not yet implemented") and returns no actions for every ByteBox,
\* decodable or not.
C9_NotYetImplemented ==
    [][\A c \in DOMAIN sig :
          (Called(c) /\ HandshakeState(c) = ClientInfoSent) =>
              /\ HandshakeState(c)' = Failure("Not yet implemented")
              /\ returned'[c] = << >>]_vars

\* After the ServerHello a second ByteBox that does not decode was handled.
C9_Witness ==
    \E c \in DOMAIN sig :
        /\ Len(inbound[c]) = 2
        /\ IsServerHello(inbound[c][1])
        /\ ~decode(Arrived(c)).ok
        /\ HandshakeState(c).tag = "Failure"

\* The pure transition function folded over a sequence of ByteBoxes.
RECURSIVE Folded(_, _)
Folded(self, boxes) ==
    IF boxes = << >> THEN [self |-> self, actions |-> << >>]
    ELSE LET prev == Folded(self, SubSeq(boxes, 1, Len(boxes) - 1))
             t == next_state(prev.self, boxes[Len(boxes)])
         IN  [self |-> [prev.self EXCEPT !.server.handshake_state = t.state],
              actions |-> t.actions]

\* C10 (read-compute-store): after the ByteBoxes m1..mn have been handled in
\* arrival order the stored state is the transition function folded over
\* m1..mn from New, and the actions returned last are those of the last
\* transition.
C10_ReadComputeStore ==
    \A c \in DOMAIN sig :
        LET f == Folded(Signaling_new(sig[c].role, sig[c].permanent_key), inbound[c])
        IN  /\ HandshakeState(c) = f.self.server.handshake_state
            /\ returned[c] = f.actions

\* Three messages have been handled, the first of them a ServerHello.
C10_Witness ==
    \E c \in DOMAIN sig :
        /\ Len(inbound[c]) = 3
        /\ IsServerHello(inbound[c][1])
        /\ HandshakeState(c) = Failure("Not yet implemented")

\* C11 (frame of handle_message): across every step of a connection only
\* the server context's handshake_state changes; the role, the local
\* permanent KeyStore and the server context's permanent_key and session_key
\* keep the values they had at creation (the returned actions are not
\* executed on the Signaling).
C11_Frame ==
    /\ [][\A c \in DOMAIN sig :
            /\ c \in DOMAIN sig'
            /\ sig'[c].role = sig[c].role
            /\ sig'[c].permanent_key = sig[c].permanent_key
            /\ sig'[c].server.permanent_key = sig[c].server.permanent_key
            /\ sig'[c].server.session_key = sig[c].server.session_key]_vars
    /\ [](\A c \in DOMAIN sig :
            /\ permanent_key(sig[c].server) = None
            /\ session_key(sig[c].server) = None
            /\ sig[c] = [Signaling_new(sig[c].role, sig[c].permanent_key)
                            EXCEPT !.server.handshake_state = HandshakeState(c)])

\* A SetServerKey action has been returned and two more calls were made.
C11_Witness ==
    \E c \in DOMAIN sig :
        /\ Len(emitted[c]) = 3
        /\ Len(emitted[c][1]) = 3
        /\ emitted[c][1][1].action = "SetServerKey"

\* C12 as stated: after handle_message has processed ServerHello{key = K} in
\* state New, the server context's permanent_key() is K.
C12_KeyApplied ==
    [][\A c \in DOMAIN sig :
          (Called(c) /\ HandshakeState(c) = New /\ IsServerHello(Arrived(c)')) =>
              permanent_key(sig'[c].server)
                  = Some(decode(Arrived(c)').obox.message.key)]_vars

\* C12 (amended): after handle_message has processed ServerHello{key = K} in
\* state New, SetServerKey(K) is the first action returned to the caller and
\* the server context's permanent_key() is still absent: the coordinator
\* does not apply the action.
C12_KeyReturnedNotApplied ==
    [][\A c \in DOMAIN sig :
          (Called(c) /\ HandshakeState(c) = New /\ IsServerHello(Arrived(c)')) =>
              /\ Len(returned'[c]) >= 1
              /\ returned'[c][1] = SetServerKey(decode(Arrived(c)').obox.message.key)
              /\ permanent_key(sig'[c].server) = None]_vars

\* A ServerHello was handled in New: its key came back as an action and the
\* server context holds no permanent key.
C12_Witness ==
    \E c \in DOMAIN sig :
        /\ Len(inbound[c]) = 1
        /\ IsServerHello(Arrived(c))
        /\ returned[c][1] = SetServerKey(decode(Arrived(c)).obox.message.key)
        /\ permanent_key(sig[c].server) = None

\* C13 (nonces of the two handshake replies): on the happy path the
\* ClientHello reply carries a nonce with source 0, destination 0, overflow 0
\* and some sequence value s, and the ClientAuth reply a nonce with the same
\* cookie, source, destination and overflow and the sequence value s + 1.
C13_ReplyNonces ==
    [][\A c \in DOMAIN sig :
          (Called(c) /\ HandshakeState(c) = New /\ IsServerHello(Arrived(c)')) =>
              /\ Len(returned'[c]) = 3
              /\ LET hello == returned'[c][2].bbox.nonce
                     auth == returned'[c][3].bbox.nonce
                 IN  /\ hello.source = Sender_new(0)
                     /\ hello.destination = Receiver_new(0)
                     /\ hello.overflow = 0
                     /\ auth.cookie = hello.cookie
                     /\ auth.source = hello.source
                     /\ auth.destination = hello.destination
                     /\ auth.overflow = hello.overflow
                     /\ auth.sequence = hello.sequence + 1]_vars

\* The two replies of a handshake have been returned, with the sequence
\* values of the source (123 and 124).
C13_Witness ==
    \E c \in DOMAIN sig :
        /\ Len(inbound[c]) = 1
        /\ Len(returned[c]) = 3
        /\ returned[c][2].bbox.nonce.sequence = 123
        /\ returned[c][3].bbox.nonce.sequence = 124

\* The actions of a sequence of action lists, in the order they were returned.
RECURSIVE Flatten(_)
Flatten(lists) ==
    IF lists = << >> THEN << >>
    ELSE Flatten(SubSeq(lists, 1, Len(lists) - 1)) \o lists[Len(lists)]

\* Every Reply connection c has emitted so far.
Replies(c) == SelectSeq(Flatten(emitted[c]), LAMBDA a : a.action = "Reply")

\* C14 (nonce non-reuse): over the lifetime of one connection, repeated
\* ServerHello messages included, no two Reply actions it emitted carry
\* nonces with the same (overflow, sequence) pair.
C14_NonceNonReuse ==
    \A c \in DOMAIN sig :
        \A i, j \in 1..Len(Replies(c)) :
            i # j =>
                << Replies(c)[i].bbox.nonce.overflow, Replies(c)[i].bbox.nonce.sequence >>
                # << Replies(c)[j].bbox.nonce.overflow, Replies(c)[j].bbox.nonce.sequence >>

\* A connection has handled two ServerHello messages in a row and has
\* emitted its two replies.
C14_Witness ==
    \E c \in DOMAIN sig :
        /\ Len(inbound[c]) >= 2
        /\ IsServerHello(inbound[c][1])
        /\ IsServerHello(inbound[c][2])
        /\ Len(Replies(c)) = 2

\* C15 (shape of the state history): a connection's handshake state starts
\* as New; each handle_message call moves it along New -> ClientInfoSent,
\* New -> Failure, ClientInfoSent -> Failure or Failure -> Failure, enters
\* ClientInfoSent only from New on a decoded ServerHello, and never leaves it
\* at New or returns it to New; no other step changes it.
C15_StateHistory ==
    [][/\ \A c \in (DOMAIN sig') \ (DOMAIN sig) : HandshakeState(c)' = New
       /\ \A c \in DOMAIN sig :
            IF Called(c)
            THEN /\ << HandshakeState(c).tag, HandshakeState(c)'.tag >> \in
                        { << "New", "ClientInfoSent" >>, << "New", "Failure" >>,
                          << "ClientInfoSent", "Failure" >>, << "Failure", "Failure" >> }
                 /\ HandshakeState(c)' = ClientInfoSent =>
                        HandshakeState(c) = New /\ IsServerHello(Arrived(c)')
            ELSE /\ c \in DOMAIN sig'
                 /\ HandshakeState(c)' = HandshakeState(c)]_vars

\* A connection has gone New -> ClientInfoSent -> Failure -> Failure.
C15_Witness ==
    \E c \in DOMAIN sig :
        /\ Len(inbound[c]) = 3
        /\ Len(emitted[c][1]) = 3
        /\ HandshakeState(c).tag = "Failure"

\* A Signaling that handles boxes alone: its final value and the action
\* list each call returned.
RECURSIVE Alone(_, _)
Alone(self, boxes) ==
    IF boxes = << >> THEN [self |-> self, emitted |-> << >>]
    ELSE LET prev == Alone(self, SubSeq(boxes, 1, Len(boxes) - 1))
             t == next_state(prev.self, boxes[Len(boxes)])
         IN  [self |-> [prev.self EXCEPT !.server.handshake_state = t.state],
              emitted |-> Append(prev.emitted, t.actions)]

\* C16 (connection isolation): with several Signaling instances whose calls
\* interleave, a call on one instance leaves every other instance's state,
\* inbound history and returned actions untouched, and each instance's state
\* and returned actions are those it would have had handling its own
\* messages alone.
C16_Isolation ==
    /\ [][\A c \in DOMAIN sig :
            Called(c) =>
                \A d \in (DOMAIN sig) \ {c} :
                    /\ sig'[d] = sig[d]
                    /\ inbound'[d] = inbound[d]
                    /\ returned'[d] = returned[d]
                    /\ emitted'[d] = emitted[d]]_vars
    /\ [](\A c \in DOMAIN sig :
            LET alone == Alone(Signaling_new(sig[c].role, sig[c].permanent_key),
                               inbound[c])
            IN  /\ sig[c] = alone.self
                /\ emitted[c] = alone.emitted
                /\ returned[c] =
                       IF inbound[c] = << >> THEN << >>
                       ELSE alone.emitted[Len(inbound[c])])

\* Two connections with different local keys have both handled messages:
\* one is in ClientInfoSent, the other has failed.
C16_Witness ==
    \E c, d \in DOMAIN sig :
        /\ c # d
        /\ sig[c].permanent_key # sig[d].permanent_key
        /\ Len(inbound[c]) = 1
        /\ HandshakeState(c) = ClientInfoSent
        /\ Len(inbound[d]) = 2
        /\ HandshakeState(d).tag = "Failure"

\* C17 (bounded handshake): after its second handle_message call a
\* connection is in a Failure state, and it is in Failure already after the
\* first call unless the first ByteBox decoded to a ServerHello.
C17_FailureWithinTwo ==
    \A c \in DOMAIN sig :
        /\ Len(inbound[c]) >= 2 => HandshakeState(c).tag = "Failure"
        /\ (Len(inbound[c]) = 1 /\ ~IsServerHello(inbound[c][1])) =>
               HandshakeState(c).tag = "Failure"
        /\ (Len(inbound[c]) = 1 /\ IsServerHello(inbound[c][1])) =>
               HandshakeState(c) = ClientInfoSent

\* A ServerHello followed by a second ServerHello has been handled.
C17_Witness ==
    \E c \in DOMAIN sig :
        /\ Len(inbound[c]) = 2
        /\ IsServerHello(inbound[c][1])
        /\ IsServerHello(inbound[c][2])
        /\ HandshakeState(c).tag = "Failure"

\* C18 (actions at most once): every handle_message call returns either no
\* actions or the three happy-path actions, the latter exactly when the call
\* moves the state from New to ClientInfoSent; so over a connection's
\* lifetime only the first call can return actions and SetServerKey is
\* emitted at most once, a later ServerHello emitting nothing.
C18_ActionsAtMostOnce ==
    /\ [][\A c \in DOMAIN sig :
            Called(c) =>
                /\ \/ returned'[c] = << >>
                   \/ /\ Len(returned'[c]) = 3
                      /\ returned'[c][1].action = "SetServerKey"
                      /\ returned'[c][2].action = "Reply"
                      /\ returned'[c][3].action = "Reply"
                /\ returned'[c] # << >> <=>
                       (HandshakeState(c) = New /\ HandshakeState(c)' = ClientInfoSent)]_vars
    /\ [](\A c \in DOMAIN sig :
            /\ \A i \in 1..Len(emitted[c]) : emitted[c][i] # << >> => i = 1
            /\ Len(SelectSeq(Flatten(emitted[c]),
                             LAMBDA a : a.action = "SetServerKey")) <= 1)

\* Three ServerHello messages have been handled: the first returned the
\* three actions, the later ones none.
C18_Witness ==
    \E c \in DOMAIN sig :
        /\ Len(inbound[c]) = 3
        /\ \A i \in 1..3 : IsServerHello(inbound[c][i])
        /\ Len(emitted[c][1]) = 3
        /\ emitted[c][2] = << >>
        /\ emitted[c][3] = << >>

\* C19 (the (Failure, any) entry of the dispatch is redundant): Failure and
\* every state other than New return before the decode, so the dispatch is
\* evaluated with state New only and its Failure arm is never taken: in a
\* state other than New the transition is the same for every ByteBox (the
\* one of a ByteBox without bytes, which cannot decode), and
\* every stored reason is a decode error's text, "Not yet implemented" or an
\* "Invalid event transition" reason naming the state New.
C19_FailureArmRedundant ==
    \A c \in DOMAIN sig :
        /\ \A bbox \in InByteBoxes :
             LET s == HandshakeState(c) IN
             IF reaches_dispatch(sig[c], bbox)
             THEN /\ s = New
                  /\ next_state(sig[c], bbox) = dispatch(sig[c], decode(bbox).obox)
             ELSE IF s = New
             THEN next_state(sig[c], bbox) = into(Failure(format_error(decode(bbox).err)))
             ELSE next_state(sig[c], bbox)
                      = next_state(sig[c], ByteBox_new(<< >>, create_test_nonce))
        /\ HandshakeState(c).tag = "Failure" =>
             HandshakeState(c).msg \in
                 {format_error(e) : e \in {"Empty", "Malformed", "UnknownType"}}
                 \cup {"Not yet implemented"}
                 \cup {"Invalid event transition: New <- " \o get_type(m) : m \in InMessages}

\* A connection that failed on an unexpected ClientAuth has been given two
\* more messages, the last one a decodable ServerHello.
C19_Witness ==
    \E c \in DOMAIN sig :
        /\ Len(inbound[c]) = 3
        /\ IsServerHello(Arrived(c))
        /\ HandshakeState(c) = Failure("Invalid event transition: New <- client-auth")

====
